---- MODULE Spec2Model ----
(***************************************************************************)
(* Model of src/app.py: a Streamlit script that loads an accuracy CSV and  *)
(* a coverage CSV, left-merges them on (routeID, timePeriod), filters the  *)
(* three tables by the sidebar selection and renders four tabs.            *)
(*                                                                         *)
(* One run of the script is one behaviour: pc is the position in the       *)
(* script.  Every rerun that Streamlit triggers on a widget change is      *)
(* another run with the same (cached) load and another selection, so the   *)
(* Filters action draws the selection from every subset of the options.    *)
(*                                                                         *)
(* A cell of a numeric column is << >> (pandas NaN, an empty CSV cell) or  *)
(* <<v>> with v an integer.  Key cells (routeID, route, timePeriod) are    *)
(* strings and always present.  accurate_pct is always a number.  The      *)
(* cells of Time Bucket, early_pct, late_pct and totalPredictions are      *)
(* read by the charts only; for them the model keeps whether the column    *)
(* exists, not the cell values.                                            *)
(***************************************************************************)
EXTENDS Integers, Sequences, FiniteSets, TLC

VARIABLES
  pc,
  f_accuracy,
  f_coverage,
  df_accuracy,
  df_coverage,
  df_merged,
  df_corr_analysis,
  unique_periods,
  unique_routes,
  selected_periods,
  selected_routes,
  df_merged_filtered,
  df_acc_filtered,
  df_cov_filtered,
  correlation,
  metric,
  band,
  views,
  displayed,
  error

vars ==
  <<pc, f_accuracy, f_coverage, df_accuracy, df_coverage, df_merged,
    df_corr_analysis, unique_periods, unique_routes, selected_periods,
    selected_routes, df_merged_filtered, df_acc_filtered, df_cov_filtered,
    correlation, metric, band, views, displayed, error>>

----------------------------------------------------------------------------
(* Bounds of the model *)

MaxAcc ==
  2

MaxCov ==
  2

MaxCorrRows ==
  4

Routes ==
  {"10", "20"}

Periods ==
  {"AM", "PM"}

CovVals ==
  {<< <<>>, <<1>> >>, << <<0>>, <<>> >>, << <<1>>, <<0>> >>}

CorrVals ==
  {0, 1, 2, 3}

----------------------------------------------------------------------------
(* Cells, rows, tables, files *)

NaN ==
  << >>

Sentinel ==
  -1

AccColumns ==
  {"routeID", "timePeriod", "Time Bucket", "accurate_pct", "early_pct",
   "late_pct", "totalPredictions"}

CovColumns ==
  {"route", "timePeriod", "fractionTrackedExplained",
   "fractionOnFullyMissingTrips"}

CovRows ==
  {[route |-> r, timePeriod |-> p, fractionTrackedExplained |-> v[1],
    fractionOnFullyMissingTrips |-> v[2]] : r \in Routes, p \in Periods, v \in CovVals}

SeqsUpTo(S, n) ==
  UNION {[1..k -> S] : k \in 0..n}

NoFile ==
  [present |-> FALSE, valid |-> FALSE, columns |-> {}, rows |-> << >>]

CsvFile(cols, rows) ==
  [present |-> TRUE, valid |-> TRUE, columns |-> cols, rows |-> rows]

BadCsv ==
  [present |-> TRUE, valid |-> FALSE, columns |-> {}, rows |-> << >>]

EmptyTable ==
  << >>

IsEmptyNever(df) ==
  FALSE

IsEmpty(df) ==
  Len(df) = 0

----------------------------------------------------------------------------
(* load_data: read_csv, rename, left merge, fillna *)

ReadCsvFails(file) ==
  ~file.valid

Rename(cov) ==
  [i \in DOMAIN cov |->
     [routeID |-> cov[i].route,
      timePeriod |-> cov[i].timePeriod,
      fractionTrackedExplained |-> cov[i].fractionTrackedExplained,
      fractionOnFullyMissingTrips |-> cov[i].fractionOnFullyMissingTrips]]

MergeKeyError(file_acc, file_cov) ==
  \/ ~(CovColumns \subseteq file_cov.columns)
  \/ ~({"routeID", "timePeriod"} \subseteq file_acc.columns)

Joined(a, c) ==
  [routeID |-> a.routeID,
   timePeriod |-> a.timePeriod,
   accurate_pct |-> a.accurate_pct,
   fractionTrackedExplained |-> c.fractionTrackedExplained,
   fractionOnFullyMissingTrips |-> c.fractionOnFullyMissingTrips]

Unjoined(a) ==
  [routeID |-> a.routeID,
   timePeriod |-> a.timePeriod,
   accurate_pct |-> a.accurate_pct,
   fractionTrackedExplained |-> NaN,
   fractionOnFullyMissingTrips |-> NaN]

RECURSIVE MatchRows(_, _)
MatchRows(a, right) ==
  IF right = << >> THEN << >>
  ELSE (IF Head(right).routeID = a.routeID /\ Head(right).timePeriod = a.timePeriod
        THEN <<Joined(a, Head(right))>>
        ELSE << >>) \o MatchRows(a, Tail(right))

OrUnjoinedInner(a, matches) ==
  matches

OrUnjoined(a, matches) ==
  IF matches = << >> THEN <<Unjoined(a)>> ELSE matches

RECURSIVE LeftMerge(_, _)
LeftMerge(left, right) ==
  IF left = << >> THEN << >>
  ELSE OrUnjoined(Head(left), MatchRows(Head(left), right)) \o LeftMerge(Tail(left), right)

FillNa(df) ==
  [i \in DOMAIN df |->
     IF df[i].fractionTrackedExplained = NaN
     THEN [df[i] EXCEPT !.fractionTrackedExplained = <<Sentinel>>]
     ELSE df[i]]

load_data(file_acc, file_cov) ==
  IF ReadCsvFails(file_acc) \/ ReadCsvFails(file_cov) \/ MergeKeyError(file_acc, file_cov)
  THEN [ok |-> FALSE, df_accuracy |-> EmptyTable, df_coverage |-> EmptyTable,
        df_merged |-> EmptyTable]
  ELSE [ok |-> TRUE, df_accuracy |-> file_acc.rows, df_coverage |-> file_cov.rows,
        df_merged |-> FillNa(LeftMerge(file_acc.rows, Rename(file_cov.rows)))]

CorrAnalysisKeepAll(merged) ==
  merged

CorrAnalysisOf(merged) ==
  SelectSeq(merged, LAMBDA r : r.fractionTrackedExplained # <<Sentinel>>)

----------------------------------------------------------------------------
(* Filters *)

Unique(df, col) ==
  {df[i][col] : i \in DOMAIN df}

FilterRowsEither(df, routeCol, periods, routes) ==
  SelectSeq(df, LAMBDA r : r.timePeriod \in periods \/ r[routeCol] \in routes)

FilterRows(df, routeCol, periods, routes) ==
  SelectSeq(df, LAMBDA r : r.timePeriod \in periods /\ r[routeCol] \in routes)

----------------------------------------------------------------------------
(* Pearson correlation of fractionTrackedExplained with accurate_pct.      *)
(* The coefficient cov / sqrt(vx * vy) is kept exactly as the triple       *)
(* (cov, vx, vy) of n-scaled sums; it is NaN when fewer than two complete  *)
(* rows contribute or one column has zero variance.                        *)

Complete(df) ==
  SelectSeq(df, LAMBDA r : r.fractionTrackedExplained # NaN /\ r.accurate_pct # NaN)

RECURSIVE Sum(_)
Sum(s) ==
  IF s = << >> THEN 0 ELSE Head(s) + Sum(Tail(s))

X(r) ==
  r.fractionTrackedExplained[1]

Y(r) ==
  r.accurate_pct[1]

NanCorr ==
  [nan |-> TRUE, cov |-> 0, vx |-> 0, vy |-> 0]

Coefficient(n, sx, sy, sxy, sxx, syy) ==
  IF n < 2 \/ n * sxx - sx * sx = 0 \/ n * syy - sy * sy = 0
  THEN NanCorr
  ELSE [nan |-> FALSE, cov |-> n * sxy - sx * sy, vx |-> n * sxx - sx * sx,
        vy |-> n * syy - sy * sy]

Pearson(rows) ==
  Coefficient(Len(rows),
              Sum([i \in DOMAIN rows |-> X(rows[i])]),
              Sum([i \in DOMAIN rows |-> Y(rows[i])]),
              Sum([i \in DOMAIN rows |-> X(rows[i]) * Y(rows[i])]),
              Sum([i \in DOMAIN rows |-> X(rows[i]) * X(rows[i])]),
              Sum([i \in DOMAIN rows |-> Y(rows[i]) * Y(rows[i])]))

Corr(df) ==
  Pearson(Complete(df))

(* c > num/den and c < num/den, den > 0; every comparison with NaN is false *)
Gt(c, num, den) ==
  /\ ~c.nan
  /\ IF num >= 0
     THEN c.cov > 0 /\ den * den * c.cov * c.cov > num * num * c.vx * c.vy
     ELSE c.cov >= 0 \/ den * den * c.cov * c.cov < num * num * c.vx * c.vy

Lt(c, num, den) ==
  /\ ~c.nan
  /\ IF num <= 0
     THEN c.cov < 0 /\ den * den * c.cov * c.cov > num * num * c.vx * c.vy
     ELSE c.cov <= 0 \/ den * den * c.cov * c.cov < num * num * c.vx * c.vy

(* c = num/den exactly *)
IsValue(c, num, den) ==
  /\ ~c.nan
  /\ den * den * c.cov * c.cov = num * num * c.vx * c.vy
  /\ (num > 0 => c.cov > 0)
  /\ (num < 0 => c.cov < 0)

BandInclusive(c) ==
  IF Gt(c, 1, 2) \/ IsValue(c, 1, 2) THEN "strong positive"
  ELSE IF Gt(c, 1, 5) \/ IsValue(c, 1, 5) THEN "moderate positive"
  ELSE IF Lt(c, -1, 5) \/ IsValue(c, -1, 5) THEN "negative"
  ELSE "no clear correlation"

Band(c) ==
  IF Gt(c, 1, 2) THEN "strong positive"
  ELSE IF Gt(c, 1, 5) THEN "moderate positive"
  ELSE IF Lt(c, -1, 5) THEN "negative"
  ELSE "no clear correlation"

Metric(c) ==
  IF c.nan THEN "nan%" ELSE "percent"

----------------------------------------------------------------------------
(* The script run *)

ViewNames ==
  {"correlation", "scatter", "acc_by_bucket", "acc_by_route", "cov_by_period",
   "cov_by_route", "merged_table"}

ScatterColumns ==
  {"accurate_pct", "Time Bucket", "totalPredictions", "routeID", "timePeriod"}

BucketColumns ==
  {"Time Bucket", "accurate_pct", "early_pct", "late_pct"}

(* Input files of Spec: every table of at most MaxAcc / MaxCov rows over    *)
(* the keys, the numeric cells of a row being fixed by its key (coverage   *)
(* rows also with an empty fractionTrackedExplained cell).  SpecMerge      *)
(* draws the coverage cells freely, SpecCorr all numeric cells.            *)
KeyedAccRows ==
  {[routeID |-> r, timePeriod |-> p,
    accurate_pct |-> IF r = "10" THEN <<1>> ELSE <<0>>] : r \in Routes, p \in Periods}

KeyedCovRows ==
  {[route |-> r, timePeriod |-> p,
    fractionTrackedExplained |-> IF e THEN NaN ELSE IF p = "AM" THEN <<1>> ELSE <<0>>,
    fractionOnFullyMissingTrips |-> <<0>>] : r \in Routes, p \in Periods, e \in BOOLEAN}

AccFiles ==
  {CsvFile(AccColumns, rows) : rows \in SeqsUpTo(KeyedAccRows, MaxAcc)}

CovFiles ==
  {CsvFile(CovColumns, rows) : rows \in SeqsUpTo(KeyedCovRows, MaxCov)}

Fresh ==
  /\ pc = "start"
  /\ df_accuracy = EmptyTable
  /\ df_coverage = EmptyTable
  /\ df_merged = EmptyTable
  /\ df_corr_analysis = EmptyTable
  /\ unique_periods = {}
  /\ unique_routes = {}
  /\ selected_periods = {}
  /\ selected_routes = {}
  /\ df_merged_filtered = EmptyTable
  /\ df_acc_filtered = EmptyTable
  /\ df_cov_filtered = EmptyTable
  /\ correlation = NanCorr
  /\ metric = "none"
  /\ band = "none"
  /\ views = [v \in ViewNames |-> "pending"]
  /\ displayed = EmptyTable
  /\ error = "none"

Init ==
  /\ f_accuracy \in AccFiles \cup {NoFile}
  /\ f_coverage \in CovFiles \cup {NoFile}
  /\ Fresh

(* lines 24-26: a file is not uploaded yet; st.info and st.stop *)
NoFiles ==
  /\ pc = "start"
  /\ ~f_accuracy.present \/ ~f_coverage.present
  /\ pc' = "stopped"
  /\ UNCHANGED <<f_accuracy, f_coverage, df_accuracy, df_coverage, df_merged,
                 df_corr_analysis, unique_periods, unique_routes, selected_periods,
                 selected_routes, df_merged_filtered, df_acc_filtered,
                 df_cov_filtered, correlation, metric, band, views, displayed,
                 error>>

(* line 59: the call of load_data, with its except branch *)
LoadData ==
  /\ pc = "start"
  /\ f_accuracy.present /\ f_coverage.present
  /\ LET res == load_data(f_accuracy, f_coverage)
     IN /\ df_accuracy' = res.df_accuracy
        /\ df_coverage' = res.df_coverage
        /\ df_merged' = res.df_merged
        /\ pc' = IF res.ok THEN "corr_analysis" ELSE "stopped"
        /\ error' = IF res.ok THEN "none" ELSE "load"
  /\ UNCHANGED <<f_accuracy, f_coverage, df_corr_analysis, unique_periods,
                 unique_routes, selected_periods, selected_routes,
                 df_merged_filtered, df_acc_filtered, df_cov_filtered,
                 correlation, metric, band, views, displayed>>

(* line 62 *)
CorrAnalysis ==
  /\ pc = "corr_analysis"
  /\ df_corr_analysis' = CorrAnalysisOf(df_merged)
  /\ pc' = "filters"
  /\ UNCHANGED <<f_accuracy, f_coverage, df_accuracy, df_coverage, df_merged,
                 unique_periods, unique_routes, selected_periods, selected_routes,
                 df_merged_filtered, df_acc_filtered, df_cov_filtered,
                 correlation, metric, band, views, displayed, error>>

(* lines 66-98: the two multiselects and the three filtered tables *)
Filters ==
  /\ pc = "filters"
  /\ unique_periods' = Unique(df_merged, "timePeriod")
  /\ unique_routes' = Unique(df_merged, "routeID")
  /\ \E P \in SUBSET Unique(df_merged, "timePeriod"),
        R \in SUBSET Unique(df_merged, "routeID") :
       /\ selected_periods' = P
       /\ selected_routes' = R
       /\ df_merged_filtered' = FilterRows(df_corr_analysis, "routeID", P, R)
       /\ df_acc_filtered' = FilterRows(df_accuracy, "routeID", P, R)
       /\ df_cov_filtered' = FilterRows(df_coverage, "route", P, R)
  /\ pc' = "tab1"
  /\ UNCHANGED <<f_accuracy, f_coverage, df_accuracy, df_coverage, df_merged,
                 df_corr_analysis, correlation, metric, band, views, displayed,
                 error>>

(* lines 110-166: correlation metric and band, then the scatter chart *)
Tab1 ==
  /\ pc = "tab1"
  /\ IF IsEmpty(df_merged_filtered)
     THEN /\ views' = [views EXCEPT !["correlation"] = "nodata", !["scatter"] = "nodata"]
          /\ pc' = "tab2"
          /\ UNCHANGED <<correlation, metric, band, error>>
     ELSE IF "accurate_pct" \notin f_accuracy.columns
     THEN /\ views' = [views EXCEPT !["correlation"] = "error"]
          /\ pc' = "crashed"
          /\ error' = "exception"
          /\ UNCHANGED <<correlation, metric, band>>
     ELSE /\ correlation' = Corr(df_merged_filtered)
          /\ metric' = Metric(correlation')
          /\ band' = Band(correlation')
          /\ IF ScatterColumns \subseteq f_accuracy.columns
             THEN /\ views' = [views EXCEPT !["correlation"] = "rendered",
                                            !["scatter"] = "rendered"]
                  /\ pc' = "tab2"
                  /\ error' = error
             ELSE /\ views' = [views EXCEPT !["correlation"] = "rendered",
                                            !["scatter"] = "error"]
                  /\ pc' = "crashed"
                  /\ error' = "exception"
  /\ UNCHANGED <<f_accuracy, f_coverage, df_accuracy, df_coverage, df_merged,
                 df_corr_analysis, unique_periods, unique_routes, selected_periods,
                 selected_routes, df_merged_filtered, df_acc_filtered,
                 df_cov_filtered, displayed>>

(* lines 170-203: the two accuracy aggregations *)
Tab2 ==
  /\ pc = "tab2"
  /\ IF IsEmpty(df_acc_filtered)
     THEN /\ views' = [views EXCEPT !["acc_by_bucket"] = "nodata",
                                    !["acc_by_route"] = "nodata"]
          /\ pc' = "tab3"
          /\ error' = error
     ELSE IF ~(BucketColumns \subseteq f_accuracy.columns)
     THEN /\ views' = [views EXCEPT !["acc_by_bucket"] = "error"]
          /\ pc' = "crashed"
          /\ error' = "exception"
     ELSE /\ views' = [views EXCEPT !["acc_by_bucket"] = "rendered",
                                    !["acc_by_route"] = "rendered"]
          /\ pc' = "tab3"
          /\ error' = error
  /\ UNCHANGED <<f_accuracy, f_coverage, df_accuracy, df_coverage, df_merged,
                 df_corr_analysis, unique_periods, unique_routes, selected_periods,
                 selected_routes, df_merged_filtered, df_acc_filtered,
                 df_cov_filtered, correlation, metric, band, displayed>>

(* lines 207-238: the two coverage aggregations *)
Tab3 ==
  /\ pc = "tab3"
  /\ views' = IF IsEmpty(df_cov_filtered)
              THEN [views EXCEPT !["cov_by_period"] = "nodata",
                                 !["cov_by_route"] = "nodata"]
              ELSE [views EXCEPT !["cov_by_period"] = "rendered",
                                 !["cov_by_route"] = "rendered"]
  /\ pc' = "tab4"
  /\ UNCHANGED <<f_accuracy, f_coverage, df_accuracy, df_coverage, df_merged,
                 df_corr_analysis, unique_periods, unique_routes, selected_periods,
                 selected_routes, df_merged_filtered, df_acc_filtered,
                 df_cov_filtered, correlation, metric, band, displayed, error>>

(* lines 242-254: the merged table shown to the user *)
Tab4 ==
  /\ pc = "tab4"
  /\ displayed' = df_merged_filtered
  /\ views' = [views EXCEPT !["merged_table"] = "rendered"]
  /\ pc' = "done"
  /\ UNCHANGED <<f_accuracy, f_coverage, df_accuracy, df_coverage, df_merged,
                 df_corr_analysis, unique_periods, unique_routes, selected_periods,
                 selected_routes, df_merged_filtered, df_acc_filtered,
                 df_cov_filtered, correlation, metric, band, error>>

Next ==
  \/ NoFiles
  \/ LoadData
  \/ CorrAnalysis
  \/ Filters
  \/ Tab1
  \/ Tab2
  \/ Tab3
  \/ Tab4

Spec ==
  Init /\ [][Next]_vars

----------------------------------------------------------------------------
(* SpecMerge: load_data on every coverage table with freely drawn cells *)

InitMerge ==
  /\ f_accuracy \in AccFiles
  /\ f_coverage \in {CsvFile(CovColumns, rows) : rows \in SeqsUpTo(CovRows, MaxCov)}
  /\ Fresh

SpecMerge ==
  InitMerge /\ [][LoadData]_vars

----------------------------------------------------------------------------
(* SpecCols: the script run on files that are not CSV or lack one column *)

AccFilesLacking ==
  {CsvFile(AccColumns \ {c}, rows) : c \in AccColumns, rows \in SeqsUpTo(KeyedAccRows, MaxAcc)}

CovFilesLacking ==
  {CsvFile(CovColumns \ {c}, rows) : c \in CovColumns, rows \in SeqsUpTo(KeyedCovRows, MaxCov)}

InitCols ==
  /\ f_accuracy \in AccFiles \cup AccFilesLacking \cup {BadCsv, NoFile}
  /\ f_coverage \in CovFiles \cup CovFilesLacking \cup {BadCsv, NoFile}
  /\ Fresh

SpecCols ==
  InitCols /\ [][Next]_vars

----------------------------------------------------------------------------
(* SpecCorr: tab 1 on every merged table of at most MaxCorrRows rows, one  *)
(* route per row, all routes and periods selected.  The state is the one   *)
(* the script is in at line 110 for these two files.  The coverage file    *)
(* lists its routes by nondecreasing fractionTrackedExplained; the         *)
(* accurate_pct cells are free.                                            *)

CorrAccFile(y) ==
  CsvFile(AccColumns,
          [i \in DOMAIN y |->
             [routeID |-> ToString(i), timePeriod |-> "AM", accurate_pct |-> <<y[i]>>]])

CorrCovFile(x) ==
  CsvFile(CovColumns,
          [i \in DOMAIN x |->
             [route |-> ToString(i), timePeriod |-> "AM",
              fractionTrackedExplained |-> <<x[i]>>,
              fractionOnFullyMissingTrips |-> NaN]])

(* columns whose coefficient is exactly 0.3, 0.1 and -0.3 *)
CorrExamples ==
  {<< <<0, 1, 3, 4>>, <<0, 3, 4, 1>> >>,
   << <<0, 1, 3, 4>>, <<0, 4, 3, 1>> >>,
   << <<0, 1, 3, 4>>, <<1, 4, 3, 0>> >>}

NonDecreasing(x) ==
  \A i \in 1..(Len(x) - 1) : x[i] <= x[i + 1]

CorrInputs ==
  CorrExamples \cup
  UNION {{x \in [1..n -> CorrVals] : NonDecreasing(x)} \X [1..n -> CorrVals] :
           n \in 0..MaxCorrRows}

AtTab1 ==
  /\ pc = "tab1"
  /\ df_accuracy = load_data(f_accuracy, f_coverage).df_accuracy
  /\ df_coverage = load_data(f_accuracy, f_coverage).df_coverage
  /\ df_merged = load_data(f_accuracy, f_coverage).df_merged
  /\ df_corr_analysis = CorrAnalysisOf(df_merged)
  /\ unique_periods = Unique(df_merged, "timePeriod")
  /\ unique_routes = Unique(df_merged, "routeID")
  /\ selected_periods = unique_periods
  /\ selected_routes = unique_routes
  /\ df_merged_filtered =
       FilterRows(df_corr_analysis, "routeID", selected_periods, selected_routes)
  /\ df_acc_filtered =
       FilterRows(df_accuracy, "routeID", selected_periods, selected_routes)
  /\ df_cov_filtered =
       FilterRows(df_coverage, "route", selected_periods, selected_routes)
  /\ correlation = NanCorr
  /\ metric = "none"
  /\ band = "none"
  /\ views = [v \in ViewNames |-> "pending"]
  /\ displayed = EmptyTable
  /\ error = "none"

InitCorr ==
  /\ \E xy \in CorrInputs :
       /\ f_accuracy = CorrAccFile(xy[2])
       /\ f_coverage = CorrCovFile(xy[1])
  /\ AtTab1

SpecCorr ==
  InitCorr /\ [][Tab1]_vars

----------------------------------------------------------------------------
(* Properties of load_data (SpecMerge) *)

Loaded ==
  pc = "corr_analysis"

SameKey(a, c) ==
  a.routeID = c.route /\ a.timePeriod = c.timePeriod

MatchesOf(a, cov) ==
  {j \in DOMAIN cov : SameKey(a, cov[j])}

UniqueCoverageKeys ==
  \A i, j \in DOMAIN f_coverage.rows :
    (f_coverage.rows[i].route = f_coverage.rows[j].route
       /\ f_coverage.rows[i].timePeriod = f_coverage.rows[j].timePeriod) => i = j

AccuracyPart(m) ==
  [routeID |-> m.routeID, timePeriod |-> m.timePeriod, accurate_pct |-> m.accurate_pct]

(* C1: when every (route, timePeriod) key occurs at most once in the       *)
(* coverage table, the merged table has exactly as many rows as the        *)
(* accuracy table, and its i-th row is the i-th accuracy row extended: no  *)
(* accuracy row is dropped or duplicated, matched or not.                  *)
C1_RowCountPreserved ==
  (Loaded /\ UniqueCoverageKeys) =>
    /\ Len(df_merged) = Len(f_accuracy.rows)
    /\ \A i \in DOMAIN df_merged : AccuracyPart(df_merged[i]) = f_accuracy.rows[i]

C1_Witness ==
  /\ Loaded
  /\ UniqueCoverageKeys
  /\ Len(f_accuracy.rows) = 2
  /\ Len(f_coverage.rows) = 2
  /\ MatchesOf(f_accuracy.rows[1], f_coverage.rows) = {}
  /\ MatchesOf(f_accuracy.rows[2], f_coverage.rows) # {}

(* C2: every accuracy row appears exactly once in the merged table however *)
(* many coverage rows share its key, duplicate coverage keys included.     *)
C2_TrueLeftJoin ==
  Loaded =>
    /\ Len(df_merged) = Len(f_accuracy.rows)
    /\ \A i \in DOMAIN df_merged : AccuracyPart(df_merged[i]) = f_accuracy.rows[i]

(* C3: a merged row without a matching coverage row has                    *)
(* fractionTrackedExplained = -1 and fractionOnFullyMissingTrips missing;  *)
(* a merged row with exactly one matching coverage row carries that row's  *)
(* two coverage cells.                                                     *)
C3_CoverageCells ==
  Loaded =>
    \A i \in DOMAIN df_merged :
      LET m == df_merged[i]
          hits == MatchesOf(m, f_coverage.rows)
      IN /\ hits = {} =>
              /\ m.fractionTrackedExplained = <<Sentinel>>
              /\ m.fractionOnFullyMissingTrips = NaN
         /\ Cardinality(hits) = 1 =>
              \A j \in hits :
                /\ m.fractionTrackedExplained = f_coverage.rows[j].fractionTrackedExplained
                /\ m.fractionOnFullyMissingTrips =
                     f_coverage.rows[j].fractionOnFullyMissingTrips

----------------------------------------------------------------------------
(* Properties of the correlation block of tab 1 (SpecCorr) *)

AfterTab1 ==
  pc \in {"tab2", "tab3", "tab4", "done"}

(* zero or one contributing row, or a column without variance *)
NotComputable(df) ==
  \/ Len(df) <= 1
  \/ \A i, j \in DOMAIN df : df[i].fractionTrackedExplained = df[j].fractionTrackedExplained
  \/ \A i, j \in DOMAIN df : df[i].accurate_pct = df[j].accurate_pct

(* C4: when the correlation is not computable the view shows neither a     *)
(* coefficient formatted as a number nor a band message; otherwise the     *)
(* displayed coefficient lies in [-1, 1].                                  *)
C4_UndefinedIsSignalled ==
  AfterTab1 =>
    IF NotComputable(df_merged_filtered)
    THEN metric = "none" /\ band = "none"
    ELSE /\ metric = "percent"
         /\ correlation.cov * correlation.cov <= correlation.vx * correlation.vy

BandNames ==
  {"strong positive", "moderate positive", "negative", "no clear correlation"}

(* C5: a computed coefficient v gets exactly one band: strong positive iff *)
(* v > 0.5, moderate positive iff 0.2 < v <= 0.5, negative iff v < -0.2,   *)
(* no clear correlation iff -0.2 <= v <= 0.2; so 0.6, 0.3, -0.3, 0.1 give  *)
(* strong, moderate, negative, none and 0.5, 0.2, -0.2 give moderate,      *)
(* none, none.                                                             *)
C5_Bands ==
  (AfterTab1 /\ ~correlation.nan) =>
    /\ band \in BandNames
    /\ band = "strong positive" <=> Gt(correlation, 1, 2)
    /\ band = "moderate positive" <=> (Gt(correlation, 1, 5) /\ ~Gt(correlation, 1, 2))
    /\ band = "negative" <=> Lt(correlation, -1, 5)
    /\ band = "no clear correlation" <=>
         (~Lt(correlation, -1, 5) /\ ~Gt(correlation, 1, 5))
    /\ IsValue(correlation, 3, 5) => band = "strong positive"
    /\ IsValue(correlation, 3, 10) => band = "moderate positive"
    /\ IsValue(correlation, -3, 10) => band = "negative"
    /\ IsValue(correlation, 1, 10) => band = "no clear correlation"
    /\ IsValue(correlation, 1, 2) => band = "moderate positive"
    /\ IsValue(correlation, 1, 5) => band = "no clear correlation"
    /\ IsValue(correlation, -1, 5) => band = "no clear correlation"

C5_Witness ==
  /\ AfterTab1
  /\ IsValue(correlation, 1, 5)
  /\ band = "no clear correlation"

----------------------------------------------------------------------------
(* Properties of the filters and the views (Spec) *)

AfterFilters ==
  pc \in {"tab1", "tab2", "tab3", "tab4", "done", "crashed"}

SentinelRow(r) ==
  r.fractionTrackedExplained = <<Sentinel>>

Selected(r) ==
  r.timePeriod \in selected_periods /\ r.routeID \in selected_routes

NoSentinelAnalysed ==
  AfterFilters => \A i \in DOMAIN df_merged_filtered : ~SentinelRow(df_merged_filtered[i])

(* C6 as stated: a -1 row never reaches the correlation or the scatter     *)
(* view, but the merged table displayed to the user contains it whenever   *)
(* the selection includes its timePeriod and routeID.                      *)
C6_SentinelRowDisplayed ==
  /\ NoSentinelAnalysed
  /\ pc = "done" =>
       \A i \in DOMAIN df_merged :
         (SentinelRow(df_merged[i]) /\ Selected(df_merged[i])) =>
           \E j \in DOMAIN displayed : displayed[j] = df_merged[i]

(* C6 amended: a -1 row never reaches the correlation or the scatter view, *)
(* and the merged table displayed in tab 4 is that same filtered analysis  *)
(* set, so it never shows a -1 row; an accuracy row without coverage is    *)
(* retained, with -1, only in df_merged, whose values are the filter       *)
(* options.                                                                *)
C6_SentinelRowOnlyInMerged ==
  /\ NoSentinelAnalysed
  /\ pc = "done" =>
       /\ displayed = df_merged_filtered
       /\ \A j \in DOMAIN displayed : ~SentinelRow(displayed[j])
  /\ AfterFilters =>
       \A k \in DOMAIN f_accuracy.rows :
         MatchesOf(f_accuracy.rows[k], f_coverage.rows) = {} =>
           /\ \E i \in DOMAIN df_merged :
                /\ AccuracyPart(df_merged[i]) = f_accuracy.rows[k]
                /\ SentinelRow(df_merged[i])
           /\ f_accuracy.rows[k].routeID \in unique_routes
           /\ f_accuracy.rows[k].timePeriod \in unique_periods

C6_Witness ==
  /\ pc = "done"
  /\ displayed # << >>
  /\ \E i \in DOMAIN df_merged :
       /\ SentinelRow(df_merged[i])
       /\ Selected(df_merged[i])
       /\ MatchesOf(df_merged[i], f_coverage.rows) = {}

(* C7: with every offered period and every offered route selected, each   *)
(* of the three filtered tables equals its input table, also when the      *)
(* coverage table holds a route or timePeriod absent from the accuracy     *)
(* table.                                                                  *)
C7_FullSelectionIsNoOp ==
  (AfterFilters /\ selected_periods = unique_periods /\ selected_routes = unique_routes) =>
    /\ df_acc_filtered = df_accuracy
    /\ df_merged_filtered = df_corr_analysis
    /\ df_cov_filtered = df_coverage

Kept(df, routeCol) ==
  {i \in DOMAIN df : df[i].timePeriod \in selected_periods
                       /\ df[i][routeCol] \in selected_routes}

(* the k-th smallest index of a set of indices *)
Nth(idx, k) ==
  CHOOSE i \in idx : Cardinality({j \in idx : j <= i}) = k

IsSelectionOf(out, df, routeCol) ==
  /\ Len(out) = Cardinality(Kept(df, routeCol))
  /\ \A k \in DOMAIN out : out[k] = df[Nth(Kept(df, routeCol), k)]

(* C8: each filtered table is exactly the rows of its own input table, in  *)
(* input order, whose timePeriod and route column are both selected.       *)
C8_FilteredTables ==
  AfterFilters =>
    /\ IsSelectionOf(df_acc_filtered, df_accuracy, "routeID")
    /\ IsSelectionOf(df_cov_filtered, df_coverage, "route")
    /\ IsSelectionOf(df_merged_filtered, df_corr_analysis, "routeID")

C8_Witness ==
  /\ AfterFilters
  /\ Len(df_acc_filtered) = 2
  /\ df_acc_filtered[1] # df_acc_filtered[2]
  /\ Len(df_coverage) = 2
  /\ Len(df_cov_filtered) = 1
  /\ df_cov_filtered[1] = df_coverage[2]
  /\ Len(df_merged_filtered) = 1

NoData(names) ==
  \A v \in names : views[v] = "nodata"

(* C9: a filtered table without rows leaves each of its views in the       *)
(* no-data state, with nothing computed on it, and the run goes on         *)
(* without error.                                                          *)
C9_EmptyTablesShowNoData ==
  /\ (AfterTab1 /\ df_merged_filtered = << >>) =>
       /\ NoData({"correlation", "scatter"})
       /\ metric = "none"
       /\ band = "none"
  /\ (pc \in {"tab3", "tab4", "done"} /\ df_acc_filtered = << >>) =>
       NoData({"acc_by_bucket", "acc_by_route"})
  /\ (pc \in {"tab4", "done"} /\ df_cov_filtered = << >>) =>
       NoData({"cov_by_period", "cov_by_route"})
  /\ (AfterFilters /\ df_merged_filtered = << >> /\ df_acc_filtered = << >>
        /\ df_cov_filtered = << >>) =>
       (pc # "crashed" /\ error = "none")

C9_Witness ==
  /\ pc = "done"
  /\ df_accuracy # << >>
  /\ df_coverage # << >>
  /\ df_corr_analysis # << >>
  /\ df_merged_filtered = << >>
  /\ df_acc_filtered = << >>
  /\ df_cov_filtered = << >>
  /\ error = "none"

----------------------------------------------------------------------------
(* Properties of the run on defective files (SpecCols) *)

Defective ==
  /\ f_accuracy.present
  /\ f_coverage.present
  /\ \/ ~f_accuracy.valid
     \/ ~f_coverage.valid
     \/ ~(AccColumns \subseteq f_accuracy.columns)
     \/ ~(CovColumns \subseteq f_coverage.columns)

(* C10: a file that is not CSV or lacks a required column makes the run    *)
(* abort in load_data, before any filter control or view; no view is       *)
(* rendered before a missing-column failure.                               *)
Ended ==
  pc \in {"stopped", "crashed", "done"}

C10_AbortsInLoadData ==
  /\ (Defective /\ Ended) =>
       /\ pc = "stopped"
       /\ error = "load"
       /\ unique_periods = {}
       /\ unique_routes = {}
       /\ \A v \in ViewNames : views[v] = "pending"
  /\ ~(error = "exception" /\ \E v \in ViewNames : views[v] = "rendered")

====
